---- MODULE Spec2Model ----
(***************************************************************************)
(* The redis counter store of shawnhugginsjr/ratelimit                     *)
(* (stores/redis/redis.go) together with NewLimitRecord (limiter.go).      *)
(*                                                                         *)
(* Each caller owns one connection (the *redis.Tx handed to onWatch).  One *)
(* action is one round trip to the server followed by the local code that  *)
(* runs on its reply; time.Now() is read in the step of the reply it       *)
(* follows.  The server keeps, per key, the count and the instant at which *)
(* the key expires, and per connection whether a watched key was touched.  *)
(* A key exists while now < its expiry instant.                            *)
(***************************************************************************)
EXTENDS Integers, FiniteSets, TLC

\* ---- bounds of the model ----
NumProcs == 2
NumKeys == 1
MaxCalls == 2
MaxTime == 5
MaxLimit == 4
Period == 2

\* Store.RetryLimit as the tests configure it.
RetryLimit == 3

Procs == 1..NumProcs
Keys == 1..NumKeys

\* PTTL's reply for a key that exists with no expiry, and for an absent key.
NoExpiry == -1
KeyAbsent == -2

VARIABLES
  now,      \* the clock (server and clients agree on it)
  limit,    \* rate.Limit of the limiter
  val,      \* val[k]: the stored count of key k, 0 when the key does not exist
  exp,      \* exp[k]: the instant key k expires, NoExpiry when it has no TTL
  watch,    \* watch[p]: "none", "clean" or "dirty": p's connection's WATCH state
  pc,       \* pc[p]: where caller p is in its call
  op,       \* op[p]: "record" or "check", the call p is in (or has finished)
  key,      \* key[p]: the key of p's call
  i,        \* i[p]: the loop counter of the try* function p is in
  count,    \* count[p]: the count returned by p's INCR
  lr,       \* lr[p]: the LimitRecord p's call returns
  err,      \* err[p]: the error p's call returns, "none" for nil
  calls,    \* calls[p]: the number of calls p has issued
  gen,      \* history: gen[k] counts the entries created for key k so far
  cgen,     \* history: cgen[p] is the entry p's call incremented or read (0: none)
  kth,      \* history: p's RecordRequest is the kth[p]-th issued for its key
  issued,   \* history: issued[k] counts the RecordRequest calls issued for k
  reported, \* history: the <<key, entry, count>> of every successful RecordRequest
  dup,      \* history: some successful RecordRequest reported a triple again
  lastCount, \* history: lastCount[k] is the count key k's last expired entry had
  admitted, \* history: admitted[k][g] counts the successful RecordRequest calls
            \* on entry g of key k that returned LimitReached = FALSE
  cancelled, \* cancelled[p]: the ctx of p's call has been cancelled
  http      \* http[p]: "none" for a direct call, else the state of the request
            \* the middleware handles: "pending", "iderror", "500", "429", "served"

vars == <<now, limit, val, exp, watch, pc, op, key, i, count, lr, err, calls,
          gen, cgen, kth, issued, reported, dup, lastCount, admitted,
          cancelled, http>>

store == <<val, exp>>
hist == <<gen, cgen, kth, issued, reported, dup, lastCount, admitted>>
ext == <<cancelled, http>>

\* An upper bound of the number of entries a key can get.
MaxGen == NumProcs * MaxCalls

ZeroLimitRecord == [Limit |-> 0, Remaining |-> 0, Reset |-> 0, LimitReached |-> FALSE]

\* ---- limiter.go ----

\* Mutant: the limit counts as reached one request late.
NewLimitRecordLate(rateLimit, expiration, cnt) ==
  [Limit |-> rateLimit,
   Remaining |-> IF cnt <= rateLimit THEN rateLimit - cnt ELSE 0,
   Reset |-> expiration,
   LimitReached |-> ~(cnt <= rateLimit + 1)]

\* Mutant: the limit counts as reached at observedCount = rate.Limit.
NewLimitRecordReached(rateLimit, expiration, cnt) ==
  [Limit |-> rateLimit,
   Remaining |-> IF cnt <= rateLimit THEN rateLimit - cnt ELSE 0,
   Reset |-> expiration,
   LimitReached |-> cnt >= rateLimit]

\* Mutant: the boundary count = limit already counts as over the limit.
NewLimitRecordStrict(rateLimit, expiration, cnt) ==
  [Limit |-> rateLimit,
   Remaining |-> IF cnt < rateLimit THEN rateLimit - cnt ELSE 0,
   Reset |-> expiration,
   LimitReached |-> ~(cnt < rateLimit)]

\* Mutant: Remaining is not clamped at 0.
NewLimitRecordUnclamped(rateLimit, expiration, cnt) ==
  [Limit |-> rateLimit,
   Remaining |-> rateLimit - cnt,
   Reset |-> expiration,
   LimitReached |-> ~(cnt <= rateLimit)]

NewLimitRecord(rateLimit, expiration, cnt) ==
  [Limit |-> rateLimit,
   Remaining |-> IF cnt <= rateLimit THEN rateLimit - cnt ELSE 0,
   Reset |-> expiration,
   LimitReached |-> ~(cnt <= rateLimit)]

\* ---- the server ----

\* PTTL of a key whose count is v and whose expiry instant is e.
PTTL(v, e) ==
  IF v = 0 THEN KeyAbsent ELSE IF e = NoExpiry THEN NoExpiry ELSE e - now

\* A write to key k marks every connection watching k.
Touch(w, k) ==
  [q \in Procs |-> IF w[q] # "none" /\ key[q] = k THEN "dirty" ELSE w[q]]

\* EXEC of a MULTI block fails when a watched key was touched since WATCH.
TxFailed(w) == w = "dirty"

\* ---- stores/redis/redis.go ----

\* Mutant: the EXPIRE is never asked for.
isExpirationRequiredNever(ttl) == FALSE

\* Mutant: every negative ttl asks for the EXPIRE.
isExpirationRequiredNegative(ttl) == ttl < 0

isExpirationRequired(ttl) == ttl = NoExpiry

\* expiration as RecordRequest.onWatch and CheckLimit.onWatch compute it.
Expiration(ttl) == IF ttl > 0 THEN now + ttl ELSE now + Period

\* Mutant: SET in place of SETNX, the key is written whether it exists or not.
setNXAlways(v) == TRUE

\* SETNX key 1 PX period: created iff the key is absent (its count v is 0).
setNXCreated(v) == v = 0

\* Mutant: SETNX without an expiration.
setNXNoExpiration(period) == NoExpiry

\* The expiry instant SETNX gives the key it creates.
setNXExpiration(period) == now + period

\* Mutant: the pipeline increments the count by two (INCRBY 2).
incrementValueTwice(v) == v + 2

\* Mutant: the pipeline reads the count (GET) and does not increment it.
incrementValueNoIncr(v) == v

\* The stored count after incrementValue's pipeline (INCR, PTTL) has run.
incrementValuePipeline(v) == v + 1

\* Mutant: the pipeline is incrementValue's (INCR in place of GET).
checkLimitIncr(v) == v + 1

\* The stored count after checkLimit's pipeline (GET, PTTL) has run.
checkLimitPipeline(v) == v

\* Mutant: the retry loop has no bound.
AlwaysRetry(n) == TRUE

\* Mutant: a failed attempt is never repeated.
NoRetry(n) == FALSE

\* The loop condition of trySetNX, tryIncrementValue and tryCheckLimit after
\* attempt number n (0-based) has failed.
CanRetry(n) == n + 1 < RetryLimit

\* ---- middleware/stdhttp.go ----

\* Mutant: no return after the 429, the wrapped handler is served as well.
HandlerOutcomeNoStop(record, error) ==
  IF error # "none" THEN "500" ELSE "served"

\* What Middleware.Handler does with RecordRequest's result: 500 on an error,
\* 429 when the limit is reached, else the wrapped handler is served.
HandlerOutcome(record, error) ==
  IF error # "none" THEN "500"
  ELSE IF record.LimitReached THEN "429"
  ELSE "served"

\* ---- stores/redis/redis.go, the calls ----

\* Mutant: lr outlives the call, it starts as the previous call left it.
InitialRecordStale(prev) == prev

\* var lr ratelimit.LimitRecord: every call starts with the zero record.
InitialRecord(prev) == ZeroLimitRecord

\* The record a call returns with an error: RecordRequest returns the literal
\* LimitRecord{}, CheckLimit returns its variable lr.
ErrorRecord(p) == IF op[p] = "check" THEN lr[p] ELSE ZeroLimitRecord

\* Mutant: tryIncrementValue tries again whatever ttl is.
StopRetryNever(ttl) == FALSE

\* tryIncrementValue returns the error at once when incrementValue's ttl is negative.
StopRetry(ttl) == ttl < 0

\* The call of caller p ends: Client.Watch returns, the connection is released.
Finish(p, w, record, error) ==
  /\ pc' = [pc EXCEPT ![p] = "done"]
  /\ watch' = [w EXCEPT ![p] = "none"]
  /\ lr' = [lr EXCEPT ![p] = record]
  /\ err' = [err EXCEPT ![p] = error]
  /\ i' = [i EXCEPT ![p] = 0]
  /\ count' = [count EXCEPT ![p] = 0]
  /\ http' = [http EXCEPT ![p] = IF http[p] = "pending"
                                  THEN HandlerOutcome(record, error) ELSE http[p]]

\* A successful RecordRequest of p, committed to entry g of key k with count c.
Report(k, g, c) ==
  /\ reported' = reported \cup {<<k, g, c>>}
  /\ dup' = (dup \/ <<k, g, c>> \in reported)

\* A successful RecordRequest on entry g of key k has returned record.
Admit(k, g, record) ==
  admitted' = [admitted EXCEPT ![k][g] = IF record.LimitReached THEN @ ELSE @ + 1]

\* One attempt of a try* loop has failed with a retryable error.
Retry(p, w, next, exhausted) ==
  IF CanRetry(i[p])
  THEN /\ i' = [i EXCEPT ![p] = i[p] + 1]
       /\ watch' = w
       /\ pc' = [pc EXCEPT ![p] = next]
       /\ UNCHANGED <<lr, err, count, http>>
  ELSE Finish(p, w, ErrorRecord(p), exhausted)

\* tryIncrementValue when incrementValue returned ttl and the error error.
tryIncrementValueFailed(p, w, ttl, error) ==
  IF StopRetry(ttl)
  THEN Finish(p, w, ErrorRecord(p), error)
  ELSE Retry(p, w, "incr", "retry limit exceeded")

\* RecordRequest up to Client.Watch's WATCH of the key.
RecordRequestCall(p) ==
  /\ pc[p] \in {"idle", "done"}
  /\ calls[p] < MaxCalls
  /\ \E k \in Keys :
       /\ key' = [key EXCEPT ![p] = k]
       /\ issued' = [issued EXCEPT ![k] = issued[k] + 1]
       /\ kth' = [kth EXCEPT ![p] = issued[k] + 1]
  /\ op' = [op EXCEPT ![p] = "record"]
  /\ calls' = [calls EXCEPT ![p] = calls[p] + 1]
  /\ pc' = [pc EXCEPT ![p] = "setnx"]
  /\ watch' = [watch EXCEPT ![p] = "clean"]
  /\ lr' = [lr EXCEPT ![p] = InitialRecord(lr[p])]
  /\ err' = [err EXCEPT ![p] = "none"]
  /\ i' = [i EXCEPT ![p] = 0]
  /\ cgen' = [cgen EXCEPT ![p] = 0]
  /\ cancelled' = [cancelled EXCEPT ![p] = FALSE]
  /\ UNCHANGED <<now, limit, val, exp, count, gen, reported, dup, lastCount, admitted>>

\* RecordRequest called directly.
RecordRequest(p) ==
  /\ RecordRequestCall(p)
  /\ http' = [http EXCEPT ![p] = "none"]

\* trySetNX / setNX answered by the server, and onWatch's created branch.
setNX(p) ==
  LET k == key[p] IN
  /\ pc[p] = "setnx"
  /\ IF setNXCreated(val[k])
     THEN /\ val' = [val EXCEPT ![k] = 1]
          /\ exp' = [exp EXCEPT ![k] = setNXExpiration(Period)]
          /\ gen' = [gen EXCEPT ![k] = IF val[k] = 0 THEN gen[k] + 1 ELSE gen[k]]
          /\ cgen' = [cgen EXCEPT ![p] = gen'[k]]
          /\ Finish(p, Touch(watch, k), NewLimitRecord(limit, now + Period, 1), "none")
          /\ Report(k, gen'[k], 1)
          /\ Admit(k, gen'[k], NewLimitRecord(limit, now + Period, 1))
     ELSE /\ pc' = [pc EXCEPT ![p] = "incr"]
          /\ i' = [i EXCEPT ![p] = 0]
          /\ UNCHANGED <<val, exp, watch, lr, err, count, gen, cgen, reported, dup,
                         admitted, http>>
  /\ UNCHANGED <<now, limit, op, key, calls, kth, issued, lastCount, cancelled>>

\* tryIncrementValue / incrementValue: MULTI INCR PTTL EXEC answered by the
\* server, and onWatch's return when no expiry has to be set.
incrementValue(p) ==
  LET k == key[p] IN
  /\ pc[p] = "incr"
  /\ IF TxFailed(watch[p])
     THEN /\ tryIncrementValueFailed(p, [watch EXCEPT ![p] = "none"], 0, "transaction failed")
          /\ UNCHANGED <<val, exp, gen, cgen, reported, dup, admitted>>
     ELSE LET c == incrementValuePipeline(val[k])
              ttl == PTTL(c, exp[k])
              w == [Touch(watch, k) EXCEPT ![p] = "none"]
              g == IF val[k] = 0 THEN gen[k] + 1 ELSE gen[k]
          IN /\ val' = [val EXCEPT ![k] = c]
             /\ exp' = exp
             /\ gen' = [gen EXCEPT ![k] = g]
             /\ cgen' = [cgen EXCEPT ![p] = g]
             /\ IF isExpirationRequired(ttl)
                THEN /\ pc' = [pc EXCEPT ![p] = "expire"]
                     /\ count' = [count EXCEPT ![p] = c]
                     /\ watch' = w
                     /\ UNCHANGED <<lr, err, i, reported, dup, admitted, http>>
                ELSE /\ Finish(p, w, NewLimitRecord(limit, Expiration(ttl), c), "none")
                     /\ Report(k, g, c)
                     /\ Admit(k, g, NewLimitRecord(limit, Expiration(ttl), c))
  /\ UNCHANGED <<now, limit, op, key, calls, kth, issued, lastCount, cancelled>>

\* incrementValue's EXPIRE answered by the server, and onWatch's return.
incrementValueExpire(p) ==
  LET k == key[p] IN
  /\ pc[p] = "expire"
  /\ IF val[k] > 0
     THEN /\ exp' = [exp EXCEPT ![k] = now + Period]
          /\ Finish(p, Touch(watch, k),
                    NewLimitRecord(limit, Expiration(NoExpiry), count[p]), "none")
          /\ Report(k, cgen[p], count[p])
          /\ Admit(k, cgen[p], NewLimitRecord(limit, Expiration(NoExpiry), count[p]))
     ELSE /\ tryIncrementValueFailed(p, watch, NoExpiry, "cannot set timeout for key")
          /\ UNCHANGED <<exp, reported, dup, admitted>>
  /\ UNCHANGED <<now, limit, val, op, key, calls, gen, cgen, kth, issued, lastCount,
                 cancelled>>

\* CheckLimit up to Client.Watch's WATCH of the key.
CheckLimit(p) ==
  /\ pc[p] \in {"idle", "done"}
  /\ calls[p] < MaxCalls
  /\ \E k \in Keys : key' = [key EXCEPT ![p] = k]
  /\ op' = [op EXCEPT ![p] = "check"]
  /\ calls' = [calls EXCEPT ![p] = calls[p] + 1]
  /\ pc' = [pc EXCEPT ![p] = "check"]
  /\ watch' = [watch EXCEPT ![p] = "clean"]
  /\ lr' = [lr EXCEPT ![p] = InitialRecord(lr[p])]
  /\ err' = [err EXCEPT ![p] = "none"]
  /\ i' = [i EXCEPT ![p] = 0]
  /\ cgen' = [cgen EXCEPT ![p] = 0]
  /\ kth' = [kth EXCEPT ![p] = 0]
  /\ cancelled' = [cancelled EXCEPT ![p] = FALSE]
  /\ http' = [http EXCEPT ![p] = "none"]
  /\ UNCHANGED <<now, limit, val, exp, count, gen, issued, reported, dup, lastCount,
                 admitted>>

\* tryCheckLimit / checkLimit: MULTI GET PTTL EXEC answered by the server, and
\* CheckLimit.onWatch's return.
checkLimit(p) ==
  LET k == key[p] IN
  /\ pc[p] = "check"
  /\ IF TxFailed(watch[p])
     THEN /\ Retry(p, [watch EXCEPT ![p] = "none"], "check", "retry limit exceeded")
          /\ UNCHANGED <<val, cgen>>
     ELSE /\ val' = [val EXCEPT ![k] = checkLimitPipeline(val[k])]
          /\ cgen' = [cgen EXCEPT ![p] = IF val[k] > 0 THEN gen[k] ELSE 0]
          /\ Finish(p, watch,
                    NewLimitRecord(limit, Expiration(PTTL(val[k], exp[k])), val[k]), "none")
  /\ UNCHANGED <<now, limit, exp, op, key, calls, cancelled>>
  /\ UNCHANGED <<gen, kth, issued, reported, dup, lastCount, admitted>>

\* The clock advances; the server removes the keys whose expiry instant has
\* come.  Whether a connection watching such a key is marked depends on the
\* server's version.
Tick ==
  /\ now < MaxTime
  /\ now' = now + 1
  /\ LET gone == {k \in Keys : val[k] > 0 /\ exp[k] # NoExpiry /\ exp[k] <= now + 1} IN
       /\ val' = [k \in Keys |-> IF k \in gone THEN 0 ELSE val[k]]
       /\ exp' = [k \in Keys |-> IF k \in gone THEN NoExpiry ELSE exp[k]]
       /\ lastCount' = [k \in Keys |-> IF k \in gone THEN val[k] ELSE lastCount[k]]
       /\ \E marks \in BOOLEAN :
            watch' = [q \in Procs |->
                        IF marks /\ watch[q] # "none" /\ key[q] \in gone
                        THEN "dirty" ELSE watch[q]]
  /\ UNCHANGED <<limit, pc, op, key, i, count, lr, err, calls,
                 gen, cgen, kth, issued, reported, dup, admitted>>
  /\ UNCHANGED ext

Init ==
  /\ now = 1
  /\ limit \in 1..MaxLimit
  /\ val = [k \in Keys |-> 0]
  /\ exp = [k \in Keys |-> NoExpiry]
  /\ watch = [p \in Procs |-> "none"]
  /\ pc = [p \in Procs |-> "idle"]
  /\ op = [p \in Procs |-> "record"]
  /\ key = [p \in Procs |-> 1]
  /\ i = [p \in Procs |-> 0]
  /\ count = [p \in Procs |-> 0]
  /\ lr = [p \in Procs |-> ZeroLimitRecord]
  /\ err = [p \in Procs |-> "none"]
  /\ calls = [p \in Procs |-> 0]
  /\ gen = [k \in Keys |-> 0]
  /\ cgen = [p \in Procs |-> 0]
  /\ kth = [p \in Procs |-> 0]
  /\ issued = [k \in Keys |-> 0]
  /\ reported = {}
  /\ dup = FALSE
  /\ lastCount = [k \in Keys |-> 0]
  /\ admitted = [k \in Keys |-> [g \in 1..MaxGen |-> 0]]
  /\ cancelled = [p \in Procs |-> FALSE]
  /\ http = [p \in Procs |-> "none"]

Next ==
  \/ \E p \in Procs : RecordRequest(p)
  \/ \E p \in Procs : setNX(p)
  \/ \E p \in Procs : incrementValue(p)
  \/ \E p \in Procs : incrementValueExpire(p)
  \/ \E p \in Procs : CheckLimit(p)
  \/ \E p \in Procs : checkLimit(p)
  \/ Tick

Spec == Init /\ [][Next]_vars

\* ---- callers that issue their calls one after another ----

Quiet == \A q \in Procs : pc[q] \in {"idle", "done"}

RecordRequestSeq(p) == Quiet /\ RecordRequest(p)

CheckLimitSeq(p) == Quiet /\ CheckLimit(p)

NextSeq ==
  \/ \E p \in Procs : RecordRequestSeq(p)
  \/ \E p \in Procs : setNX(p)
  \/ \E p \in Procs : incrementValue(p)
  \/ \E p \in Procs : incrementValueExpire(p)
  \/ \E p \in Procs : CheckLimitSeq(p)
  \/ \E p \in Procs : checkLimit(p)
  \/ Tick

SpecSeq == Init /\ [][NextSeq]_vars

\* ---- a server that can fail a command ----
\* A failed command has no effect on the server and its reply is an error.

\* Client.Watch: WATCH fails, onWatch is never run.
WatchError(p) ==
  /\ pc[p] \in {"idle", "done"}
  /\ calls[p] < MaxCalls
  /\ \E k \in Keys, o \in {"record", "check"} :
       /\ key' = [key EXCEPT ![p] = k]
       /\ op' = [op EXCEPT ![p] = o]
       /\ issued' = [issued EXCEPT ![k] = IF o = "record" THEN issued[k] + 1 ELSE issued[k]]
       /\ kth' = [kth EXCEPT ![p] = IF o = "record" THEN issued[k] + 1 ELSE 0]
  /\ calls' = [calls EXCEPT ![p] = calls[p] + 1]
  /\ cgen' = [cgen EXCEPT ![p] = 0]
  /\ cancelled' = [cancelled EXCEPT ![p] = FALSE]
  /\ Finish(p, watch, IF op'[p] = "check" THEN InitialRecord(lr[p]) ELSE ZeroLimitRecord,
            "store error")
  /\ UNCHANGED <<now, limit, val, exp, gen, reported, dup, lastCount, admitted>>

\* setNX: SETNX fails; trySetNX tries again or gives up.
setNXError(p) ==
  /\ pc[p] = "setnx"
  /\ Retry(p, watch, "setnx", "retry limit exceeded")
  /\ UNCHANGED <<now, limit, val, exp, op, key, calls, cancelled>>
  /\ UNCHANGED hist

\* incrementValue: the pipeline's Exec fails; tryIncrementValue sees ttl = 0
\* and tries again or gives up.  The connection's WATCH survives when the
\* block never reached the server and is dropped when EXEC did.
incrementValueError(p) ==
  /\ pc[p] = "incr"
  /\ \E w \in {watch[p], "none"} :
       tryIncrementValueFailed(p, [watch EXCEPT ![p] = w], 0, "store error")
  /\ UNCHANGED <<now, limit, val, exp, op, key, calls, cancelled>>
  /\ UNCHANGED hist

\* incrementValue: EXPIRE fails; incrementValue returns count, keyTTL, err and
\* tryIncrementValue returns the error at once because keyTTL is negative.
incrementValueExpireError(p) ==
  /\ pc[p] = "expire"
  /\ tryIncrementValueFailed(p, watch, NoExpiry, "store error")
  /\ UNCHANGED <<now, limit, val, exp, op, key, calls, cancelled>>
  /\ UNCHANGED hist

\* checkLimit: the pipeline's Exec fails; tryCheckLimit tries again or gives up.
checkLimitError(p) ==
  /\ pc[p] = "check"
  /\ \E w \in {watch[p], "none"} :
       Retry(p, [watch EXCEPT ![p] = w], "check", "retry limit exceeded")
  /\ UNCHANGED <<now, limit, val, exp, op, key, calls, cancelled>>
  /\ UNCHANGED hist

NextFail ==
  \/ Next
  \/ \E p \in Procs : WatchError(p)
  \/ \E p \in Procs : setNXError(p)
  \/ \E p \in Procs : incrementValueError(p)
  \/ \E p \in Procs : incrementValueExpireError(p)
  \/ \E p \in Procs : checkLimitError(p)

SpecFail == Init /\ [][NextFail]_vars

\* ---- a caller that cancels its context ----

\* The caller cancels the ctx it passed (or its deadline passes) while its
\* call is in progress.  Neither RecordRequest nor CheckLimit reads ctx, and
\* the go-redis v7 commands they issue take none, so only the flag changes.
Cancel(p) ==
  /\ pc[p] \in {"setnx", "incr", "expire", "check"}
  /\ ~cancelled[p]
  /\ cancelled' = [cancelled EXCEPT ![p] = TRUE]
  /\ UNCHANGED <<now, limit, val, exp, watch, pc, op, key, i, count, lr, err, calls,
                 http>>
  /\ UNCHANGED hist

NextCtx ==
  \/ Next
  \/ \E p \in Procs : Cancel(p)

SpecCtx == Init /\ [][NextCtx]_vars

\* ---- a server whose clock advances inside EXEC ----
\* A server that reads the clock for every queued command lets a key reach
\* its expiry instant between the INCR and the PTTL of one MULTI block: INCR
\* increments the entry, PTTL finds the key expired and answers -2.

\* incrementValue when the entry expires between INCR and PTTL.
incrementValueKeyAbsent(p) ==
  LET k == key[p]
      c == incrementValuePipeline(val[k])
      ttl == PTTL(0, NoExpiry)
      w == [Touch(watch, k) EXCEPT ![p] = "none"]
      gone == {j \in Keys : val[j] > 0 /\ exp[j] # NoExpiry /\ exp[j] <= now + 1}
      expiration == IF ttl > 0 THEN now + 1 + ttl ELSE now + 1 + Period
  IN
  /\ pc[p] = "incr"
  /\ ~TxFailed(watch[p])
  /\ val[k] > 0 /\ exp[k] = now + 1
  /\ now < MaxTime
  /\ now' = now + 1
  /\ val' = [j \in Keys |-> IF j \in gone THEN 0 ELSE val[j]]
  /\ exp' = [j \in Keys |-> IF j \in gone THEN NoExpiry ELSE exp[j]]
  /\ lastCount' = [j \in Keys |-> IF j = k THEN c
                                   ELSE IF j \in gone THEN val[j] ELSE lastCount[j]]
  /\ cgen' = [cgen EXCEPT ![p] = gen[k]]
  /\ IF isExpirationRequired(ttl)
     THEN /\ pc' = [pc EXCEPT ![p] = "expire"]
          /\ count' = [count EXCEPT ![p] = c]
          /\ watch' = w
          /\ UNCHANGED <<lr, err, i, reported, dup, admitted, http>>
     ELSE /\ Finish(p, w, NewLimitRecord(limit, expiration, c), "none")
          /\ Report(k, gen[k], c)
          /\ Admit(k, gen[k], NewLimitRecord(limit, expiration, c))
  /\ UNCHANGED <<limit, op, key, calls, gen, kth, issued, cancelled>>

NextKeyAbsent ==
  \/ Next
  \/ \E p \in Procs : incrementValueKeyAbsent(p)

SpecKeyAbsent == Init /\ [][NextKeyAbsent]_vars

\* ---- middleware/stdhttp.go: requests handled by the middleware ----
\* Handler runs in the request's goroutine; caller p handles one request at
\* a time.  The limiter's store can fail a command.

\* Handler: GetID returns an error, OnIDError is invoked and Handler returns.
HandlerIDError(p) ==
  /\ pc[p] \in {"idle", "done"}
  /\ calls[p] < MaxCalls
  /\ calls' = [calls EXCEPT ![p] = calls[p] + 1]
  /\ http' = [http EXCEPT ![p] = "iderror"]
  /\ UNCHANGED <<now, limit, val, exp, watch, pc, op, key, i, count, lr, err,
                 cancelled>>
  /\ UNCHANGED hist

\* Handler: GetID returns the key and Limiter.RecordRequest is called; the
\* response is written when the call returns (Finish).
Handler(p) ==
  /\ RecordRequestCall(p)
  /\ http' = [http EXCEPT ![p] = "pending"]

NextHTTP ==
  \/ \E p \in Procs : HandlerIDError(p)
  \/ \E p \in Procs : Handler(p)
  \/ \E p \in Procs : setNX(p)
  \/ \E p \in Procs : incrementValue(p)
  \/ \E p \in Procs : incrementValueExpire(p)
  \/ \E p \in Procs : setNXError(p)
  \/ \E p \in Procs : incrementValueError(p)
  \/ \E p \in Procs : incrementValueExpireError(p)
  \/ Tick

SpecHTTP == Init /\ [][NextHTTP]_vars

\* ---- limiter.go: NewLimitRecord applied to arbitrary arguments ----

\* The arguments are drawn by the initial state: rate.Limit is limit (zero
\* and negative limits included), expiration is now, observedCount of caller
\* p is count[p].
InitNewLimitRecord ==
  /\ now \in 1..MaxTime
  /\ limit \in -1..MaxLimit
  /\ count \in [Procs -> 0..MaxLimit + 1]
  /\ val = [k \in Keys |-> 0]
  /\ exp = [k \in Keys |-> NoExpiry]
  /\ watch = [p \in Procs |-> "none"]
  /\ pc = [p \in Procs |-> "idle"]
  /\ op = [p \in Procs |-> "record"]
  /\ key = [p \in Procs |-> 1]
  /\ i = [p \in Procs |-> 0]
  /\ lr = [p \in Procs |-> ZeroLimitRecord]
  /\ err = [p \in Procs |-> "none"]
  /\ calls = [p \in Procs |-> 0]
  /\ gen = [k \in Keys |-> 0]
  /\ cgen = [p \in Procs |-> 0]
  /\ kth = [p \in Procs |-> 0]
  /\ issued = [k \in Keys |-> 0]
  /\ reported = {}
  /\ dup = FALSE
  /\ lastCount = [k \in Keys |-> 0]
  /\ admitted = [k \in Keys |-> [g \in 1..MaxGen |-> 0]]
  /\ cancelled = [p \in Procs |-> FALSE]
  /\ http = [p \in Procs |-> "none"]

\* lr = NewLimitRecord(rate, expiration, count)
NewLimitRecordCall(p) ==
  /\ pc[p] = "idle"
  /\ pc' = [pc EXCEPT ![p] = "done"]
  /\ lr' = [lr EXCEPT ![p] = NewLimitRecord(limit, now, count[p])]
  /\ UNCHANGED <<now, limit, val, exp, watch, op, key, i, count, err, calls>>
  /\ UNCHANGED hist
  /\ UNCHANGED ext

NextNewLimitRecord == \E p \in Procs : NewLimitRecordCall(p)

SpecNewLimitRecord == InitNewLimitRecord /\ [][NextNewLimitRecord]_vars

TypeOK ==
  /\ now \in 1..MaxTime
  /\ limit \in -1..MaxLimit
  /\ \A p \in Procs : lr[p] \in [Limit : Int, Remaining : Nat, Reset : Nat,
                                   LimitReached : BOOLEAN]
  /\ \A k \in Keys : val[k] >= 0 /\ (val[k] = 0 => exp[k] = NoExpiry)
  /\ \A p \in Procs : watch[p] \in {"none", "clean", "dirty"}
  /\ \A p \in Procs : cancelled[p] \in BOOLEAN
  /\ \A p \in Procs : http[p] \in {"none", "pending", "iderror", "500", "429", "served"}
  /\ \A k \in Keys : gen[k] <= MaxGen /\ \A g \in 1..MaxGen : admitted[k][g] >= 0

\* ---- the claims ----

Max0(n) == IF n > 0 THEN n ELSE 0

\* p's call has returned a LimitRecord and no error.
Returned(p, o) == pc[p] = "done" /\ op[p] = o /\ err[p] = "none"

\* C1: when every caller has finished its RecordRequest calls on a key whose
\* first entry never expired and whose limit was never reached, the stored
\* count equals the number of RecordRequest calls issued for the key.
C1_NoLostUpdate ==
  \A k \in Keys :
    (Quiet /\ gen[k] = 1 /\ val[k] > 0 /\ issued[k] <= limit) => val[k] = issued[k]

\* C1 witness: every caller has issued all its calls as RecordRequest on one
\* key, within one window, below the limit.
C1_Witness ==
  \E k \in Keys :
    /\ Quiet /\ gen[k] = 1 /\ val[k] = NumProcs * MaxCalls /\ val[k] <= limit
    /\ \A p \in Procs : calls[p] = MaxCalls /\ Returned(p, "record")

\* C2 (callers one after another): the k-th RecordRequest on a fresh key,
\* made while the key's first entry lives, returns without error
\* Remaining = N - k and LimitReached = FALSE when k <= N, and Remaining = 0
\* and LimitReached = TRUE when k > N.
C2_SequentialRemaining ==
  \A p \in Procs :
    (pc[p] = "done" /\ op[p] = "record") =>
      /\ err[p] = "none"
      /\ cgen[p] = 1 =>
           /\ lr[p].Limit = limit
           /\ kth[p] <= limit => lr[p].Remaining = limit - kth[p] /\ ~lr[p].LimitReached
           /\ kth[p] > limit => lr[p].Remaining = 0 /\ lr[p].LimitReached

\* C2 witness: one call of the window was within the limit and a later one
\* was beyond it.
C2_Witness ==
  \E p, q \in Procs :
    /\ Returned(p, "record") /\ cgen[p] = 1 /\ kth[p] = limit /\ ~lr[p].LimitReached
    /\ Returned(q, "record") /\ cgen[q] = 1 /\ kth[q] = limit + 1 /\ lr[q].LimitReached

\* C3: no two successful RecordRequest calls report the same count for the
\* same entry of a key.
C3_DistinctCounts == ~dup

\* C3 witness: two calls raced on one entry (the call issued later got the
\* smaller count) and both returned.
C3_Witness ==
  \E p, q \in Procs :
    /\ Returned(p, "record") /\ Returned(q, "record")
    /\ key[p] = key[q] /\ cgen[p] = cgen[q] /\ cgen[p] > 0
    /\ kth[p] < kth[q] /\ lr[p].Remaining < lr[q].Remaining

\* C4 as claimed: with a server that never fails, no call returns an error.
C4_NoCallFails == \A p \in Procs : err[p] = "none"

\* C4 amended: with a server that never fails, no call returns the
\* retry-limit-exceeded error; the only error a call returns is "cannot set
\* timeout for key", and only when the entry the call incremented has expired.
C4_NoRetryExhaustion ==
  \A p \in Procs :
    \/ err[p] = "none"
    \/ /\ err[p] = "cannot set timeout for key"
       /\ op[p] = "record" /\ cgen[p] > 0
       /\ (val[key[p]] = 0 \/ gen[key[p]] > cgen[p])

\* C4 witness: a RecordRequest whose transaction was aborted by a concurrent
\* write is in its second attempt.
C4_Witness ==
  \E p \in Procs : pc[p] = "incr" /\ i[p] = 1 /\ watch[p] = "none" /\ val[key[p]] > 1

\* C5 as claimed: an entry that has an expiry instant keeps it for as long as
\* the entry exists.
C5_FixedWindow ==
  [][\A k \in Keys :
       (val[k] > 0 /\ exp[k] # NoExpiry /\ val'[k] > 0) => exp'[k] = exp[k]]_vars

\* C6 as claimed: while the entry a successful call incremented or read
\* exists and has an expiry, the Reset the call returned is the entry's
\* expiry instant.
C6_ResetIsExpiry ==
  \A p \in Procs :
    (pc[p] = "done" /\ err[p] = "none" /\ cgen[p] > 0
       /\ cgen[p] = gen[key[p]] /\ val[key[p]] > 0 /\ exp[key[p]] # NoExpiry) =>
      lr[p].Reset = exp[key[p]]

\* C7: an entry whose expiry is not being repaired by a call in progress is
\* gone once its period has elapsed, and a RecordRequest whose SETNX finds the
\* key absent creates the entry with count 1 and TTL = Period and returns
\* Remaining = Limit - 1 without error.
C7_FreshAfterExpiry ==
  /\ [](\A k \in Keys :
          val[k] > 0 =>
            \/ exp[k] # NoExpiry /\ now < exp[k] /\ exp[k] <= now + Period
            \/ \E p \in Procs : pc[p] = "expire" /\ key[p] = k)
  /\ [][\A p \in Procs :
          (pc[p] = "setnx" /\ pc'[p] # "setnx" /\ val[key[p]] = 0) =>
            /\ val'[key[p]] = 1
            /\ exp'[key[p]] = now + Period
            /\ pc'[p] = "done" /\ err'[p] = "none"
            /\ lr'[p] = [Limit |-> limit, Remaining |-> limit - 1,
                         Reset |-> now + Period, LimitReached |-> FALSE]]_vars

\* C7 witness: the previous entry expired with a count above the limit and
\* the next RecordRequest created a new entry with count 1.
C7_Witness ==
  \E p \in Procs :
    /\ Returned(p, "record") /\ gen[key[p]] >= 2 /\ cgen[p] = gen[key[p]]
    /\ lastCount[key[p]] > limit
    /\ val[key[p]] = 1 /\ exp[key[p]] = now + Period
    /\ lr[p].Remaining = limit - 1

\* C8: no step of a CheckLimit call changes the count or the expiry of a key.
C8_CheckLimitReadOnly ==
  [][\A p \in Procs :
       ((pc[p] = "check" \/ pc'[p] = "check") /\ (pc'[p] # pc[p] \/ i'[p] # i[p])) =>
         (val' = val /\ exp' = exp)]_vars

\* C8 witness: a CheckLimit has returned for a key that has an entry.
C8_Witness ==
  \E p \in Procs : Returned(p, "check") /\ val[key[p]] > 0 /\ cgen[p] = gen[key[p]]

\* C9: CheckLimit returns without error, with Remaining = max(0, Limit - c)
\* and LimitReached = (c > Limit) for the count c stored when it reads (0 for
\* a missing key).
C9_CheckLimitRecord ==
  [][\A p \in Procs :
       (pc[p] = "check" /\ pc'[p] = "done") =>
         /\ err'[p] = "none"
         /\ lr'[p].Limit = limit
         /\ lr'[p].Remaining = Max0(limit - val[key[p]])
         /\ lr'[p].LimitReached = (val[key[p]] > limit)]_vars

\* C9 witness: a CheckLimit has read a count above the limit.
C9_Witness ==
  \E p \in Procs :
    Returned(p, "check") /\ lr[p].LimitReached /\ val[key[p]] > limit

\* C10 as claimed: a RecordRequest that has incremented the count and
\* returns an error does not leave the entry without an expiry.
C10_NoPartialUpdate ==
  [][\A p \in Procs :
       (op[p] = "record" /\ pc[p] = "expire" /\ pc'[p] = "done" /\ err'[p] # "none") =>
         ~(val'[key[p]] > 0 /\ exp'[key[p]] = NoExpiry)]_vars

\* C11: RecordRequest and CheckLimit honour the caller's context: a call whose
\* context was cancelled before one of its store operations was issued does
\* not complete that operation and return a LimitRecord, it returns an error.
C11_HonoursContext ==
  [][\A p \in Procs :
       (cancelled[p] /\ pc[p] # "done" /\ pc'[p] = "done") => err'[p] # "none"]_vars

\* C12: retries are bounded and end in an error: a store step (SETNX, the
\* INCR/PTTL block, the GET/PTTL block) is attempted at most RetryLimit times
\* in one call, the RetryLimit-th failed attempt ends the call with the
\* retry-limit error and the zero LimitRecord, and that error is returned
\* only after RetryLimit attempts.
C12_BoundedRetries ==
  /\ [](\A p \in Procs : i[p] + 1 <= RetryLimit)
  /\ [][\A p \in Procs :
         LET retried == pc'[p] = pc[p] /\ i'[p] # i[p]
             failed == pc'[p] = "done" /\ err'[p] # "none"
             exhausted == /\ pc'[p] = "done"
                          /\ err'[p] = "retry limit exceeded"
                          /\ lr'[p] = ZeroLimitRecord
         IN /\ (pc[p] \in {"setnx", "incr", "check"} /\ i[p] + 1 = RetryLimit
                 /\ (retried \/ failed)) => exhausted
            /\ (pc[p] # "done" /\ pc'[p] = "done" /\ err'[p] = "retry limit exceeded")
                 => (pc[p] \in {"setnx", "incr", "check"} /\ i[p] + 1 = RetryLimit)]_vars

\* A call has ended with the retry-limit error.
C12_Witness ==
  \E p \in Procs : pc[p] = "done" /\ err[p] = "retry limit exceeded"

\* C13: whenever RecordRequest or CheckLimit returns an error, the
\* LimitRecord returned with it is the zero value.
C13_ZeroRecordOnError ==
  \A p \in Procs :
    (pc[p] = "done" /\ err[p] # "none") => lr[p] = ZeroLimitRecord

\* After a RecordRequest has returned a record, the second call of a caller,
\* a CheckLimit, has returned an error with the zero record.
C13_Witness ==
  \E p \in Procs :
    /\ pc[p] = "done" /\ op[p] = "check" /\ err[p] # "none"
    /\ lr[p] = ZeroLimitRecord
    /\ calls[p] = 2
    /\ reported # {}

\* C14: NewLimitRecord is total over every rate and every observedCount >= 0:
\* it returns Limit = rate.Limit, Reset = expiration, Remaining =
\* max(0, rate.Limit - observedCount), never negative, and LimitReached =
\* (observedCount > rate.Limit); at observedCount = rate.Limit it returns
\* Remaining = 0 with LimitReached = FALSE.
C14_NewLimitRecord ==
  \A p \in Procs :
    pc[p] = "done" =>
      /\ lr[p] \in [Limit : Int, Remaining : Nat, Reset : Nat, LimitReached : BOOLEAN]
      /\ lr[p].Limit = limit
      /\ lr[p].Reset = now
      /\ lr[p].Remaining = Max0(limit - count[p])
      /\ lr[p].LimitReached = (count[p] > limit)
      /\ count[p] = limit => (lr[p].Remaining = 0 /\ ~lr[p].LimitReached)

\* NewLimitRecord has been applied at the boundary observedCount = rate.Limit
\* and above it.
C14_Witness ==
  \E p, q \in Procs :
    /\ pc[p] = "done" /\ pc[q] = "done"
    /\ limit > 0
    /\ count[p] = limit /\ lr[p].Remaining = 0 /\ ~lr[p].LimitReached
    /\ count[q] = limit + 1 /\ lr[q].Remaining = 0 /\ lr[q].LimitReached

\* C15: for every request through the middleware the wrapped handler is
\* invoked iff the identifier was extracted without error, RecordRequest
\* returned no error and the record has LimitReached = FALSE; a store error
\* yields status 500, LimitReached yields status 429, and an identifier error
\* invokes only the error handler: the limiter is not called and no counter
\* changes.
C15_Middleware ==
  /\ [](\A p \in Procs :
          /\ pc[p] = "done" => http[p] # "pending"
          /\ http[p] \in {"served", "429", "500"} =>
                /\ pc[p] = "done" /\ op[p] = "record"
                /\ http[p] = "served" <=> (err[p] = "none" /\ ~lr[p].LimitReached)
                /\ http[p] = "500" <=> err[p] # "none"
                /\ http[p] = "429" <=> (err[p] = "none" /\ lr[p].LimitReached))
  /\ [][\A p \in Procs :
         (calls'[p] # calls[p] /\ http'[p] = "iderror") =>
            UNCHANGED <<val, exp, watch, pc, issued, gen>>]_vars

\* One request has been answered 429 and another has reached the wrapped
\* handler.
C15_Witness ==
  \E p, q \in Procs : http[p] = "429" /\ http[q] = "served"

\* C16: a failure of the TTL-repair step is not retried: after an increment
\* whose TTL read was the no-expiry sentinel, the EXPIRE step always ends the
\* call, with its own error when it fails or finds the key gone, and no call
\* increments the count more than once.
C16_RepairFailureFinal ==
  [][\A p \in Procs :
       /\ (pc[p] = "expire" /\ pc'[p] # "expire") =>
             /\ pc'[p] = "done"
             /\ val' = val
             /\ err'[p] \in {"none", "store error", "cannot set timeout for key"}
             /\ err'[p] # "none" => lr'[p] = ZeroLimitRecord
             /\ val[key[p]] = 0 => err'[p] # "none"
       /\ pc[p] = "expire" => (pc'[p] = "expire" => i'[p] = i[p])
       /\ (pc[p] = "incr" /\ val'[key[p]] = val[key[p]] + 1
              /\ (pc'[p] = "expire" \/ (pc'[p] = "done" /\ err'[p] = "none")))
            => cgen[p] = 0]_vars

\* A call incremented the count of a new entry once, its EXPIRE failed, and
\* it returned the store's error leaving the entry without an expiry.
C16_Witness ==
  \E p \in Procs :
    /\ pc[p] = "done" /\ op[p] = "record" /\ err[p] = "store error"
    /\ cgen[p] > 0
    /\ val[key[p]] = 1 /\ exp[key[p]] = NoExpiry

C18_ExpirySetOnReturn ==
  [][\A p \in Procs :
       (pc[p] # "done" /\ pc'[p] = "done" /\ op[p] = "record" /\ err'[p] = "none")
         => (val'[key[p]] = 0 \/ exp'[key[p]] # NoExpiry)]_vars

\* A call incremented an entry and failed at its EXPIRE, leaving the entry
\* without an expiry; a later call on that entry has returned a record and
\* the entry has an expiry.
C18_Witness ==
  \E p, q \in Procs :
    /\ Returned(p, "record")
    /\ pc[q] = "done" /\ op[q] = "record" /\ err[q] = "store error"
    /\ cgen[q] > 0 /\ cgen[q] = cgen[p] /\ gen[key[p]] = cgen[p]
    /\ key[p] = key[q] /\ kth[q] < kth[p]
    /\ val[key[p]] = 2 /\ exp[key[p]] # NoExpiry
    /\ lr[p].Reset = exp[key[p]]

\* C19: for any key and any interleaving of concurrent RecordRequest calls,
\* at most rate.Limit calls during the lifetime of one counter entry return
\* LimitReached = FALSE.
C19_AtMostLimitAdmitted ==
  \A k \in Keys : \A g \in 1..MaxGen : admitted[k][g] <= limit

\* On one entry Limit (at least two) calls were admitted and a further call,
\* which committed on the same entry, returned LimitReached = TRUE.
C19_Witness ==
  \E p \in Procs :
    /\ Returned(p, "record") /\ lr[p].LimitReached
    /\ cgen[p] > 0
    /\ limit >= 2
    /\ admitted[key[p]][cgen[p]] = limit

\* C20: while a counter entry exists its stored count is at least 1 and
\* never decreases: it changes only by +1, by the committed increment of a
\* RecordRequest; once the stored count exceeds rate.Limit every
\* RecordRequest that commits on the entry returns LimitReached = TRUE and
\* Remaining = 0.
C20_MonotoneCount ==
  /\ [](\A k \in Keys : exp[k] # NoExpiry => val[k] >= 1)
  /\ [][\A k \in Keys :
         (val[k] > 0 /\ val'[k] > 0 /\ val'[k] # val[k]) =>
            /\ val'[k] = val[k] + 1
            /\ gen'[k] = gen[k]
            /\ \E p \in Procs :
                 /\ key[p] = k /\ op[p] = "record" /\ pc[p] = "incr"
                 /\ pc'[p] \in {"expire", "done"}
                 /\ cgen'[p] = gen[k]]_vars
  /\ [][\A p \in Procs :
         /\ (pc[p] = "incr" /\ val[key[p]] > limit /\ val'[key[p]] = val[key[p]] + 1
               /\ pc'[p] # pc[p])
              => \/ /\ pc'[p] = "done" /\ err'[p] = "none"
                    /\ lr'[p].LimitReached /\ lr'[p].Remaining = 0
                 \/ pc'[p] = "expire" /\ count'[p] > limit
         /\ (pc[p] = "expire" /\ count[p] > limit /\ pc'[p] = "done" /\ err'[p] = "none")
              => (lr'[p].LimitReached /\ lr'[p].Remaining = 0)]_vars

\* Two calls committed on the key's live entry after its count had reached
\* rate.Limit, and both returned LimitReached = TRUE: the count is Limit + 2.
C20_Witness ==
  \E p, q \in Procs :
    /\ p # q
    /\ Returned(p, "record") /\ Returned(q, "record")
    /\ lr[p].LimitReached /\ lr[p].Remaining = 0
    /\ lr[q].LimitReached /\ lr[q].Remaining = 0
    /\ key[p] = key[q]
    /\ cgen[p] = gen[key[p]] /\ cgen[q] = gen[key[p]]
    /\ val[key[p]] = limit + 2

====
